---- MODULE Spec2Model ----
(***************************************************************************)
(* A model of async_stream_magic: the StreamMagic client                   *)
(* (src/src/async_stream_magic/stream_magic.py), its exceptions            *)
(* (exceptions.py) and its records (models.py).                            *)
(*                                                                         *)
(* One client object, the session it holds, and a small number of call     *)
(* slots; each slot follows one endpoint-method invocation through the     *)
(* suspension points of StreamMagic._request.  The device and the network  *)
(* are the environment: they pick the response, fail, or stall.            *)
(***************************************************************************)
EXTENDS Integers, Sequences, FiniteSets, TLC

VARIABLES client, session, calls, closeInvocations, scope, last

vars == <<client, session, calls, closeInvocations, scope, last>>

(***************************************************************************)
(* Bounds of the model.                                                    *)
(***************************************************************************)
MaxCalls == 2
MaxCloses == 2

\* The most requests a client that retries would issue for one invocation.
MaxAttempts == 5

Calls == 1..MaxCalls

(***************************************************************************)
(* Exception classes.  Parent is the direct base class; the library's own  *)
(* two classes come from exceptions.py, the others are the classes the     *)
(* except clauses of _request name or that the runtime raises.             *)
(***************************************************************************)
Parent(c) ==
    CASE c = "StreamMagicConnectionError" -> "StreamMagicError"
      [] c = "StreamMagicError" -> "Exception"
      [] c = "ClientResponseError" -> "ClientError"
      [] c = "ClientConnectorError" -> "ClientError"
      [] c = "ClientPayloadError" -> "ClientError"
      [] c = "ClientError" -> "Exception"
      [] c = "gaierror" -> "OSError"
      [] c = "OSError" -> "Exception"
      [] c = "TimeoutError" -> "Exception"
      [] c = "RuntimeError" -> "Exception"
      [] c = "UnboundLocalError" -> "NameError"
      [] c = "NameError" -> "Exception"
      [] c = "JSONDecodeError" -> "ValueError"
      [] c = "ValidationError" -> "ValueError"
      [] c = "ValueError" -> "Exception"
      [] c = "KeyError" -> "LookupError"
      [] c = "LookupError" -> "Exception"
      [] c = "Exception" -> "BaseException"
      [] OTHER -> "object"

RECURSIVE IsInstance(_, _)
\* isinstance(<an exception of class c>, h): h is c or a base class of c.
IsInstance(c, h) ==
    IF c = h THEN TRUE
    ELSE IF c = "object" THEN FALSE
    ELSE IsInstance(Parent(c), h)

(***************************************************************************)
(* Outcomes of a coroutine: nothing yet, a returned value, a raised        *)
(* exception.  val is the returned JSON tree (a set of leaves, below);     *)
(* cause is the class of the exception an error was raised from; ect and   *)
(* etext are the Content-Type and response text an error carries.          *)
(***************************************************************************)
NoOutcome ==
    [kind |-> "none", exc |-> "", cause |-> "", val |-> {}, ect |-> <<>>, etext |-> ""]

\* raise c
Raises(c) == [NoOutcome EXCEPT !.kind = "raise", !.exc = c]

\* raise c(...) from cause
RaisesFrom(c, cause) == [NoOutcome EXCEPT !.kind = "raise", !.exc = c, !.cause = cause]

\* raise c(message, {"Content-Type": ct, "response": text})
RaisesWith(c, ct, text) ==
    [NoOutcome EXCEPT !.kind = "raise", !.exc = c, !.ect = ct, !.etext = text]

\* return v
Returns(v) == [NoOutcome EXCEPT !.kind = "return", !.val = v]

\* a coroutine that falls off its end returns None
ReturnsNone == [NoOutcome EXCEPT !.kind = "returnNone"]

(***************************************************************************)
(* The client session (aiohttp.ClientSession): whether it is closed, how   *)
(* often its close() was awaited, and how often that took effect.          *)
(***************************************************************************)
NewSession(id) == [id |-> id, closed |-> FALSE, closeCalls |-> 0, closings |-> 0]

\* await session.close(): idempotent in the library, counted here.
SessionClose(s) ==
    [s EXCEPT !.closed = TRUE,
              !.closeCalls = @ + 1,
              !.closings = IF s.closed THEN @ ELSE @ + 1]

(***************************************************************************)
(* StreamMagic.__init__                                                    *)
(***************************************************************************)
RequestTimeout == 100

\* A constructor that takes every session for its own.
Construct_AlwaysOwns(host, supplied) ==
    [host |-> host,
     request_timeout |-> 100,
     close_session |-> TRUE,
     session |-> IF supplied = "none" THEN "created" ELSE supplied]

Construct(host, supplied) ==
    [host |-> host,
     request_timeout |-> RequestTimeout,
     close_session |-> IF supplied = "none" THEN TRUE ELSE FALSE,
     session |-> IF supplied = "none" THEN "created" ELSE supplied]

(***************************************************************************)
(* JSON values.  A decoded tree is the set of its leaves; a leaf is the    *)
(* path of keys (array positions as "0", "1", ...) to a primitive, with    *)
(* the primitive's type t and its value in s (str), n (int) or b (bool).   *)
(***************************************************************************)
StrLeaf(p, v) == [p |-> p, t |-> "str", s |-> v, n |-> 0, b |-> FALSE]

IntLeaf(p, v) == [p |-> p, t |-> "int", s |-> "", n |-> v, b |-> FALSE]

BoolLeaf(p, v) == [p |-> p, t |-> "bool", s |-> "", n |-> 0, b |-> v]

\* obj has the key k: `k in obj`.
HasKey(obj, k) == \E l \in obj : Len(l.p) >= 1 /\ l.p[1] = k

\* obj[k]: the subtree under the key k.
GetItem(obj, k) ==
    {[l EXCEPT !.p = Tail(l.p)] : l \in {m \in obj : Len(m.p) >= 1 /\ m.p[1] = k}}

\* The response bodies the modelled device sends, by name.
StateFields ==
    {StrLeaf(<<"source">>, "UPNP"), BoolLeaf(<<"power">>, TRUE),
     BoolLeaf(<<"pre_amp_mode">>, FALSE), BoolLeaf(<<"pre_amp_state">>, TRUE),
     BoolLeaf(<<"mute">>, FALSE), IntLeaf(<<"volume_step">>, 32),
     IntLeaf(<<"volume_percent">>, 40), IntLeaf(<<"volume_db">>, -20)}

Under(k, obj) == {[l EXCEPT !.p = <<k>> \o l.p] : l \in obj}

InfoFields ==
    {StrLeaf(<<"name">>, "CXN"), StrLeaf(<<"model">>, "CXNv2"),
     StrLeaf(<<"timezone">>, "Europe/Berlin"), StrLeaf(<<"locale">>, "en_GB"),
     StrLeaf(<<"udn">>, "uuid-1"), StrLeaf(<<"unit_id">>, "unit-1"),
     StrLeaf(<<"api">>, "1.8")}

UsbSource ==
    {StrLeaf(<<"id">>, "USB_AUDIO"), StrLeaf(<<"name">>, "USB Audio"),
     StrLeaf(<<"default_name">>, "USB Audio"), BoolLeaf(<<"nameable">>, TRUE),
     BoolLeaf(<<"ui_selectable">>, TRUE), StrLeaf(<<"description">>, "USB"),
     StrLeaf(<<"description_locale">>, "USB"), IntLeaf(<<"preferred_order">>, 2)}

IrSource ==
    {StrLeaf(<<"id">>, "IR"), StrLeaf(<<"name">>, "Internet Radio"),
     StrLeaf(<<"default_name">>, "Internet Radio"), BoolLeaf(<<"nameable">>, FALSE),
     BoolLeaf(<<"ui_selectable">>, TRUE), StrLeaf(<<"description">>, "Radio"),
     StrLeaf(<<"description_locale">>, "Radio"), IntLeaf(<<"preferred_order">>, 1)}

Texts ==
    {"html_page", "state_full", "state_no_power", "no_data_key", "info_full",
     "sources_two", "state_no_volume_db", "state_percent_text"}

\* json.loads of a response body: ok is FALSE when the body is no JSON text.
JsonLoads(text) ==
    CASE text = "state_full" -> [ok |-> TRUE, tree |-> Under("data", StateFields)]
      [] text = "state_no_power" ->
            [ok |-> TRUE,
             tree |-> Under("data", {l \in StateFields : l.p # <<"power">>})]
      [] text = "no_data_key" ->
            [ok |-> TRUE, tree |-> {StrLeaf(<<"error">>, "busy")}]
      [] text = "info_full" -> [ok |-> TRUE, tree |-> Under("data", InfoFields)]
      [] text = "sources_two" ->
            [ok |-> TRUE,
             tree |-> Under("data", Under("sources",
                          Under("0", UsbSource) \cup Under("1", IrSource)))]
      [] text = "state_no_volume_db" ->
            [ok |-> TRUE,
             tree |-> Under("data", {l \in StateFields : l.p # <<"volume_db">>})]
      [] text = "state_percent_text" ->
            [ok |-> TRUE,
             tree |-> Under("data", {l \in StateFields : l.p # <<"volume_percent">>}
                                       \cup {StrLeaf(<<"volume_percent">>, "40")})]
      [] OTHER -> [ok |-> FALSE, tree |-> {}]

(***************************************************************************)
(* Content types, as sequences of pieces, and the substring test           *)
(* `"application/json" not in content_type`.                               *)
(***************************************************************************)
ApplicationJson == <<"application/", "json">>

ContentTypes ==
    {<<"application/", "json">>, <<"application/", "json", ";charset=utf-8">>,
     <<"text/", "html">>, <<"text/", "json">>}

\* The response's Content-Type header: absent (<<>>) or present (<<value>>).
HeaderValues == {<<>>} \cup {<<ct>> : ct \in ContentTypes}

\* headers.get("Content-Type", default)
HeadersGet(hdr, default) == IF hdr = <<>> THEN default ELSE hdr[1]

\* needle in hay, for sequences of pieces.
Contains(hay, needle) ==
    \E k \in 0..(Len(hay) - Len(needle)) :
        \A j \in 1..Len(needle) : hay[k + j] = needle[j]

Statuses == {200, 304, 404, 500}

\* A status check that lets client errors (4xx) through.
RaiseForStatusRaises_ServerErrorsOnly(status) == status >= 500

\* ClientResponse.raise_for_status raises ClientResponseError from 400 on.
RaiseForStatusRaises(status) == status >= 400

(***************************************************************************)
(* str(volume) and the endpoint table.                                     *)
(***************************************************************************)
DigitChar(d) ==
    CASE d = 0 -> "0" [] d = 1 -> "1" [] d = 2 -> "2" [] d = 3 -> "3"
      [] d = 4 -> "4" [] d = 5 -> "5" [] d = 6 -> "6" [] d = 7 -> "7"
      [] d = 8 -> "8" [] d = 9 -> "9"

RECURSIVE StrNat(_)
StrNat(n) == IF n < 10 THEN <<DigitChar(n)>> ELSE StrNat(n \div 10) \o <<DigitChar(n % 10)>>

Str(n) == IF n < 0 THEN <<"-">> \o StrNat(0 - n) ELSE StrNat(n)

Ops ==
    {"get_info", "get_sources", "get_state", "set_power_on", "set_power_off",
     "set_volume_step_up", "set_volume_step_down", "set_volume_percent",
     "set_volume_mute_on", "set_volume_mute_off", "set_source"}

Volumes == {-1, 0, 42, 100, 101}

SourceIds == {"USB_AUDIO", "IR"}

\* The path each endpoint method passes to _request.
PathOf(op) ==
    CASE op = "get_info" -> "/smoip/system/info"
      [] op = "get_sources" -> "/smoip/system/sources"
      [] OTHER -> "/smoip/zone/state"

\* An endpoint table whose step-down row was copied from step-up.
QueryOf_StepDownCopied(op, vol, src) ==
    CASE op = "get_info" -> <<>>
      [] op = "get_sources" -> <<>>
      [] op = "get_state" -> <<"zone=ZONE1">>
      [] op = "set_power_on" -> <<"zone=ZONE1&power=true">>
      [] op = "set_power_off" -> <<"zone=ZONE1&power=false">>
      [] op = "set_volume_step_up" -> <<"zone=ZONE1&volume_step_change=1">>
      [] op = "set_volume_step_down" -> <<"zone=ZONE1&volume_step_change=1">>
      [] op = "set_volume_percent" -> <<"zone=ZONE1&volume_percent=">> \o Str(vol)
      [] op = "set_volume_mute_on" -> <<"zone=ZONE1&mute=true">>
      [] op = "set_volume_mute_off" -> <<"zone=ZONE1&mute=false">>
      [] op = "set_source" -> <<"zone=ZONE1&source=", src>>

\* The query each endpoint method passes to _request.
QueryOf(op, vol, src) ==
    CASE op = "get_info" -> <<>>
      [] op = "get_sources" -> <<>>
      [] op = "get_state" -> <<"zone=ZONE1">>
      [] op = "set_power_on" -> <<"zone=ZONE1&power=true">>
      [] op = "set_power_off" -> <<"zone=ZONE1&power=false">>
      [] op = "set_volume_step_up" -> <<"zone=ZONE1&volume_step_change=1">>
      [] op = "set_volume_step_down" -> <<"zone=ZONE1&volume_step_change=-1">>
      [] op = "set_volume_percent" -> <<"zone=ZONE1&volume_percent=">> \o Str(vol)
      [] op = "set_volume_mute_on" -> <<"zone=ZONE1&mute=true">>
      [] op = "set_volume_mute_off" -> <<"zone=ZONE1&mute=false">>
      [] op = "set_source" -> <<"zone=ZONE1&source=", src>>

\* A bounds check that is exclusive at 0.
VolumeRejected_ZeroExcluded(volume) == ~(0 < volume /\ volume <= 100)

\* `not 0 <= volume <= 100` in set_volume_percent.
VolumeRejected(volume) == ~(0 <= volume /\ volume <= 100)

(***************************************************************************)
(* The records of models.py and parse_obj: every field is required        *)
(* (volume_db too: Field(alias=...) gives it no default) and is read from  *)
(* the wire key named by its alias.                                        *)
(***************************************************************************)
Field(name, alias, type) == [name |-> name, alias |-> alias, type |-> type]

InfoModel ==
    {Field("name", "name", "str"), Field("model", "model", "str"),
     Field("timezone", "timezone", "str"), Field("locale", "locale", "str"),
     Field("udn", "udn", "str"), Field("unit_id", "unit_id", "str"),
     Field("api_version", "api", "str")}

StateModel ==
    {Field("source", "source", "str"), Field("power", "power", "bool"),
     Field("pre_amp_mode", "pre_amp_mode", "bool"),
     Field("pre_amp_state", "pre_amp_state", "bool"),
     Field("mute", "mute", "bool"), Field("volume_step", "volume_step", "int"),
     Field("volume_percent", "volume_percent", "int"),
     Field("volume_db", "volume_db", "int")}

SourceModel ==
    {Field("id", "id", "str"), Field("name", "name", "str"),
     Field("default_name", "default_name", "str"),
     Field("nameable", "nameable", "bool"),
     Field("ui_selectable", "ui_selectable", "bool"),
     Field("description", "description", "str"),
     Field("description_locale", "description_locale", "str"),
     Field("preferred_order", "preferred_order", "int")}

\* The wire value of field f in obj is a primitive of f's type.
FieldValid(f, obj) == \E l \in obj : l.p = <<f.alias>> /\ l.t = f.type

\* The texts the int validator reads as a number, and the number.
IntTexts == {"40"}

IntOfText(text) == CASE text = "40" -> 40 [] OTHER -> 0

\* Field validation converts where it can: an int field takes a str that
\* spells a number and a bool, a bool field takes the ints 0 and 1.
Accepts(type, l) ==
    \/ l.t = type
    \/ type = "int" /\ l.t = "str" /\ l.s \in IntTexts
    \/ type = "int" /\ l.t = "bool"
    \/ type = "bool" /\ l.t = "int" /\ l.n \in {0, 1}

Converted(type, l) ==
    IF l.t = type THEN l
    ELSE IF type = "int" /\ l.t = "str" THEN IntLeaf(l.p, IntOfText(l.s))
    ELSE IF type = "int" /\ l.t = "bool" THEN IntLeaf(l.p, IF l.b THEN 1 ELSE 0)
    ELSE BoolLeaf(l.p, l.n = 1)

\* A record that reads every field from the wire key of its own name.
ParseObj_ByFieldName(model, obj) ==
    IF \A f \in model : \E l \in obj : l.p = <<f.name>> /\ Accepts(f.type, l)
    THEN Returns(UNION {{Converted(f.type, l) :
                            l \in {m \in obj : m.p = <<f.name>>}} : f \in model})
    ELSE Raises("ValidationError")

\* Model.parse_obj(obj)
ParseObj(model, obj) ==
    IF \A f \in model : \E l \in obj : l.p = <<f.alias>> /\ Accepts(f.type, l)
    THEN Returns(UNION {{[Converted(f.type, l) EXCEPT !.p = <<f.name>>] :
                            l \in {m \in obj : m.p = <<f.alias>>}} : f \in model})
    ELSE Raises("ValidationError")

\* len(data) of a JSON array: its positions are the keys "0", "1", ...
ArrayLen(arr) == Cardinality({l.p[1] : l \in {m \in arr : Len(m.p) >= 1}})

RECURSIVE ParseSources(_, _, _)
\* The loop of get_sources from position k on, with the list acc built so
\* far: Source.parse_obj of each item in turn, appended.
ParseSources(arr, k, acc) ==
    IF k >= ArrayLen(arr) THEN Returns(acc)
    ELSE LET item == ParseObj(SourceModel, GetItem(arr, DigitChar(k)))
         IN  IF item.kind = "raise" THEN item
             ELSE ParseSources(arr, k + 1, acc \cup Under(DigitChar(Cardinality({l.p[1] : l \in acc})), item.val))

\* What an endpoint method makes of the outcome rq of its _request call.
MethodOutcome(op, rq) ==
    IF rq.kind # "return" THEN rq
    ELSE IF op = "get_info"
         THEN IF HasKey(rq.val, "data")
              THEN ParseObj(InfoModel, GetItem(rq.val, "data"))
              ELSE Raises("KeyError")
    ELSE IF op = "get_state"
         THEN IF HasKey(rq.val, "data")
              THEN ParseObj(StateModel, GetItem(rq.val, "data"))
              ELSE Raises("KeyError")
    ELSE IF op = "get_sources"
         THEN IF HasKey(rq.val, "data") /\ HasKey(GetItem(rq.val, "data"), "sources")
              THEN ParseSources(GetItem(GetItem(rq.val, "data"), "sources"), 0, {})
              ELSE Raises("KeyError")
    ELSE IF op = "_request" THEN rq
    ELSE ReturnsNone

(***************************************************************************)
(* A call slot: one endpoint-method invocation and the _request it makes.  *)
(*   pc       idle, connect, headers (inside the timeout block), text,     *)
(*            sleep, json (after it), done                                 *)
(*   method   the method argument of _request; verb, the HTTP verb of the   *)
(*            request issued; sess, the session it was issued on           *)
(*   net      HTTP requests issued (session.get calls) by this invocation  *)
(*   tryExc   the class of the exception raised inside the try block       *)
(*   expired  the deadline of the timeout block has expired                *)
(*   among    other calls were in flight when this one was invoked         *)
(*   rq, out  the outcome of _request and of the endpoint method           *)
(***************************************************************************)
IdleCall ==
    [pc |-> "idle", op |-> "none", vol |-> 0, src |-> "", path |-> "",
     query |-> <<>>, method |-> "", sess |-> "none", verb |-> "", net |-> 0, stalled |-> FALSE,
     status |-> 0, hdr |-> <<>>, ctype |-> <<>>, text |-> "",
     readText |-> FALSE, readJson |-> FALSE, printed |-> FALSE,
     tryExc |-> "", expired |-> FALSE, among |-> FALSE,
     rq |-> NoOutcome, out |-> NoOutcome]

\* _request has ended with outcome rq; the endpoint method ends with it.
Done(c, rq) == [c EXCEPT !.pc = "done", !.rq = rq, !.out = MethodOutcome(c.op, rq)]

\* The except clauses of _request for an exception of class exc raised
\* inside the try block, and what follows them.
TryRaised(c, exc) ==
    LET c1 == [c EXCEPT !.tryExc = exc]
    IN  IF IsInstance(exc, "TimeoutError")
        THEN Done(c1, RaisesFrom("StreamMagicConnectionError", exc))
        ELSE IF \/ IsInstance(exc, "ClientError")
                \/ IsInstance(exc, "ClientResponseError")
                \/ IsInstance(exc, "gaierror")
        THEN Done(c1, RaisesFrom("StreamMagicConnectionError", exc))
        ELSE IF IsInstance(exc, "Exception")
        \* print(exception); execution goes on at `response.headers`, with
        \* the local `response` never assigned.
        THEN Done([c1 EXCEPT !.printed = TRUE], Raises("UnboundLocalError"))
        ELSE Done(c1, Raises(exc))

\* A content-type check by equality instead of containment.
ValidateContentType_ExactMatch(c) ==
    LET content_type == HeadersGet(c.hdr, <<>>)
    IN  IF content_type # ApplicationJson
        THEN [c EXCEPT !.ctype = content_type, !.pc = "text"]
        ELSE [c EXCEPT !.ctype = content_type, !.pc = "sleep"]

\* The code after the try block, up to its first await.
ValidateContentType(c) ==
    LET content_type == HeadersGet(c.hdr, <<>>)
    IN  IF ~Contains(content_type, ApplicationJson)
        THEN [c EXCEPT !.ctype = content_type, !.pc = "text"]
        ELSE [c EXCEPT !.ctype = content_type, !.pc = "sleep"]

\* StreamMagic.close
ClientClose(cl, s) ==
    LET s1 == IF cl.session # "none" /\ cl.close_session THEN SessionClose(s) ELSE s
    IN  SessionClose(s1)

\* The failure class of a finished call, by what happened in it: the
\* device could not be reached (an exception inside the try block), the
\* response was not JSON (the text branch), the input was bad (the volume
\* check, or a decoded value the record rejects).
FailureOf(c) ==
    IF c.out.kind # "raise" THEN "none"
    ELSE IF c.net = 0 THEN "badinput"
    ELSE IF c.tryExc # "" THEN "unreachable"
    ELSE IF c.readText THEN "unexpected"
    ELSE IF c.rq.kind = "return" THEN "badinput"
    ELSE "other"

NoLast == [fail |-> "none", exc |-> "", expired |-> FALSE]

\* What the caller remembers of the call that just ended.
Remember(c) ==
    LET f == FailureOf(c)
    IN  [fail |-> f,
         exc |-> IF f \in {"none", "other"} THEN "" ELSE c.out.exc,
         expired |-> c.expired]

(***************************************************************************)
(* The initial state: a client just constructed, with or without a         *)
(* session supplied by the caller.                                         *)
(***************************************************************************)
Hosts == {"192.168.178.123"}

Supplied == {"none", "supplied"}

Init ==
    /\ \E host \in Hosts, supplied \in Supplied :
          /\ client = Construct(host, supplied)
          /\ session = NewSession(IF supplied = "none" THEN "created" ELSE supplied)
    /\ calls = [i \in Calls |-> IdleCall]
    /\ closeInvocations = 0
    /\ scope = "none"
    /\ last = NoLast

(***************************************************************************)
(* An endpoint method is invoked and runs up to its first suspension.      *)
(***************************************************************************)
\* A request issued on a session of its own.
RequestSession_Fresh(cl) == "fresh"

\* self._session, as _request reads it
RequestSession(cl) == cl.session

\* _request(path, query, method) up to its await of session.get: the URL
\* is built and the request is issued with session.get, whatever method is.
Request(c, path, query, method) ==
    LET c1 == [c EXCEPT !.path = path,
                        !.query = query,
                        !.method = method,
                        !.sess = RequestSession(client),
                        !.verb = "GET",
                        !.net = @ + 1]
    IN  IF session.closed
        \* ClientSession._request: RuntimeError("Session is closed")
        THEN TryRaised(c1, "RuntimeError")
        ELSE [c1 EXCEPT !.pc = "connect"]

Invoke(c, op, vol, src) ==
    LET c0 == [c EXCEPT !.op = op, !.vol = vol, !.src = src]
    IN  IF op = "set_volume_percent" /\ VolumeRejected(vol)
        THEN [c0 EXCEPT !.pc = "done", !.out = Raises("StreamMagicError")]
        \* the endpoint methods leave method at its default, METH_GET
        ELSE Request(c0, PathOf(op), QueryOf(op, vol, src), "GET")

ArgsOf(op) ==
    IF op = "set_volume_percent" THEN {<<v, "">> : v \in Volumes}
    ELSE IF op = "set_source" THEN {<<0, sid>> : sid \in SourceIds}
    ELSE {<<0, "">>}

\* The caller of the specification Spec awaits each call before the next.
NoneInFlight == \A j \in Calls : calls[j].pc = "idle"

Start(i) ==
    /\ NoneInFlight
    /\ \E op \in Ops : \E a \in ArgsOf(op) :
          calls' = [calls EXCEPT ![i] = Invoke(calls[i], op, a[1], a[2])]
    /\ UNCHANGED <<client, session, closeInvocations, scope, last>>

\* The methods a caller of _request passes.
Methods == {"GET", "POST"}

\* _request is called directly, with a method.
StartRequest(i) ==
    /\ NoneInFlight
    /\ \E method \in Methods :
          calls' = [calls EXCEPT ![i] =
                       Request([@ EXCEPT !.op = "_request"], PathOf("get_info"),
                               <<>>, method)]
    /\ UNCHANGED <<client, session, closeInvocations, scope, last>>

(***************************************************************************)
(* Inside `async with async_timeout.timeout(...)`: session.get             *)
(***************************************************************************)
\* The connection is made and the request is written.
Connect(i) ==
    /\ calls[i].pc = "connect"
    /\ ~calls[i].stalled
    /\ calls' = [calls EXCEPT ![i] = [@ EXCEPT !.pc = "headers"]]
    /\ UNCHANGED <<client, session, closeInvocations, scope, last>>

NetFailures == {"ClientConnectorError", "gaierror"}

\* A failed request that is issued again, up to MaxAttempts requests in all.
GetFails_Retries(i) ==
    /\ calls[i].pc \in {"connect", "headers"}
    /\ \E exc \in NetFailures :
          calls' = [calls EXCEPT ![i] =
                       IF @.net < MaxAttempts
                       THEN [@ EXCEPT !.pc = "connect", !.net = @ + 1]
                       ELSE TryRaised(@, exc)]
    /\ UNCHANGED <<client, session, closeInvocations, scope, last>>

\* The network fails while session.get is awaited: the except clause
\* raises, and no further request is issued.
GetFails(i) ==
    /\ calls[i].pc \in {"connect", "headers"}
    /\ \E exc \in NetFailures : calls' = [calls EXCEPT ![i] = TryRaised(@, exc)]
    /\ UNCHANGED <<client, session, closeInvocations, scope, last>>

\* The device stops answering in the phase the call is in.
Stall(i) ==
    /\ calls[i].pc \in {"connect", "headers", "text", "json"}
    /\ ~calls[i].stalled
    /\ calls' = [calls EXCEPT ![i] = [@ EXCEPT !.stalled = TRUE]]
    /\ UNCHANGED <<client, session, closeInvocations, scope, last>>

\* A timeout that is let through unwrapped.
OnTimeout_Unwrapped(c) == Done([c EXCEPT !.tryExc = "TimeoutError"], Raises("TimeoutError"))

\* The deadline of async_timeout.timeout expires: asyncio.TimeoutError is
\* raised in the block.
OnTimeout(c) == TryRaised(c, "TimeoutError")

\* A deadline whose expiry ends every call in flight, not only its own.
Timeout_AbortsAll(i) ==
    /\ calls[i].pc \in {"connect", "headers"}
    /\ calls' = [j \in Calls |->
                    IF j = i THEN OnTimeout([calls[j] EXCEPT !.expired = TRUE])
                    ELSE IF calls[j].pc \notin {"idle", "done"} THEN OnTimeout(calls[j])
                    ELSE calls[j]]
    /\ UNCHANGED <<client, session, closeInvocations, scope, last>>

Timeout(i) ==
    /\ calls[i].pc \in {"connect", "headers"}
    /\ calls' = [calls EXCEPT ![i] = OnTimeout([@ EXCEPT !.expired = TRUE])]
    /\ UNCHANGED <<client, session, closeInvocations, scope, last>>

\* Status line and headers arrive: session.get returns the response, then
\* response.raise_for_status(), then the code after the try block.
OnResponse(c, status, hdr) ==
    LET c1 == [c EXCEPT !.status = status, !.hdr = hdr]
    IN  IF RaiseForStatusRaises(status)
        THEN TryRaised(c1, "ClientResponseError")
        ELSE ValidateContentType(c1)

RespondsFrom(i, statuses, headers) ==
    /\ calls[i].pc = "headers"
    /\ ~calls[i].stalled
    /\ \E status \in statuses, hdr \in headers :
          calls' = [calls EXCEPT ![i] = OnResponse(@, status, hdr)]
    /\ UNCHANGED <<client, session, closeInvocations, scope, last>>

GetResponds(i) == RespondsFrom(i, Statuses, HeaderValues)

(***************************************************************************)
(* After the timeout block: response.text(), asyncio.sleep(0),             *)
(* response.json()                                                         *)
(***************************************************************************)
OnText(c, text) ==
    Done([c EXCEPT !.text = text, !.readText = TRUE],
         RaisesWith("StreamMagicError", c.ctype, text))

ReadTextFrom(i, texts) ==
    /\ calls[i].pc = "text"
    /\ ~calls[i].stalled
    /\ \E text \in texts : calls' = [calls EXCEPT ![i] = OnText(@, text)]
    /\ UNCHANGED <<client, session, closeInvocations, scope, last>>

ReadText(i) == ReadTextFrom(i, Texts)

Sleep0(i) ==
    /\ calls[i].pc = "sleep"
    /\ calls' = [calls EXCEPT ![i] = [@ EXCEPT !.pc = "json"]]
    /\ UNCHANGED <<client, session, closeInvocations, scope, last>>

OnJson(c, text) ==
    LET r == JsonLoads(text)
    IN  Done([c EXCEPT !.text = text, !.readJson = TRUE],
             IF r.ok THEN Returns(r.tree) ELSE Raises("JSONDecodeError"))

ReadJsonFrom(i, texts) ==
    /\ calls[i].pc = "json"
    /\ ~calls[i].stalled
    /\ \E text \in texts : calls' = [calls EXCEPT ![i] = OnJson(@, text)]
    /\ UNCHANGED <<client, session, closeInvocations, scope, last>>

ReadJson(i) == ReadJsonFrom(i, Texts)

\* Reading the body fails, or the session's own timeout ends a stalled
\* read: the exception is raised outside the try block.
BodyFailures(c) == {"ClientPayloadError"} \cup (IF c.stalled THEN {"TimeoutError"} ELSE {})

ReadFails(i) ==
    /\ calls[i].pc \in {"text", "json"}
    /\ \E exc \in BodyFailures(calls[i]) : calls' = [calls EXCEPT ![i] = Done(@, Raises(exc))]
    /\ UNCHANGED <<client, session, closeInvocations, scope, last>>

\* The caller receives the outcome; the slot is free again.
Finish(i) ==
    /\ calls[i].pc = "done"
    /\ last' = Remember(calls[i])
    /\ calls' = [calls EXCEPT ![i] = IdleCall]
    /\ UNCHANGED <<client, session, closeInvocations, scope>>

(***************************************************************************)
(* close(), __aenter__, __aexit__                                          *)
(***************************************************************************)
Close ==
    /\ closeInvocations < MaxCloses
    /\ session' = ClientClose(client, session)
    /\ closeInvocations' = closeInvocations + 1
    /\ UNCHANGED <<client, calls, scope, last>>

AEnter ==
    /\ scope = "none"
    /\ scope' = "entered"
    /\ UNCHANGED <<client, session, calls, closeInvocations, last>>

AExit ==
    /\ scope = "entered"
    /\ scope' = "exited"
    /\ session' = ClientClose(client, session)
    /\ closeInvocations' = closeInvocations + 1
    /\ UNCHANGED <<client, calls, last>>

\* A context manager's exit that suppresses the exception.
AExitReturn_True == "True"

\* `return None` of __aexit__
AExitReturn == "None"

\* An exception leaving an `async with` body is suppressed only if
\* __aexit__ returns a true value.
ScopeAfterExit(exc) ==
    IF exc # "" /\ AExitReturn # "True" THEN "raised" ELSE "exited"

\* A call inside the `async with` body has raised and the body does not
\* catch it: __aexit__ runs with the exception.
AExitRaising(i) ==
    /\ scope = "entered"
    /\ calls[i].pc = "done"
    /\ calls[i].out.kind = "raise"
    /\ scope' = ScopeAfterExit(calls[i].out.exc)
    /\ session' = ClientClose(client, session)
    /\ closeInvocations' = closeInvocations + 1
    /\ last' = Remember(calls[i])
    /\ calls' = [calls EXCEPT ![i] = IdleCall]
    /\ UNCHANGED client

Next ==
    \/ \E i \in Calls : Start(i)
    \/ \E i \in Calls : StartRequest(i)
    \/ \E i \in Calls : Connect(i)
    \/ \E i \in Calls : GetFails(i)
    \/ \E i \in Calls : Stall(i)
    \/ \E i \in Calls : Timeout(i)
    \/ \E i \in Calls : GetResponds(i)
    \/ \E i \in Calls : ReadText(i)
    \/ \E i \in Calls : Sleep0(i)
    \/ \E i \in Calls : ReadJson(i)
    \/ \E i \in Calls : ReadFails(i)
    \/ \E i \in Calls : Finish(i)
    \/ Close
    \/ AEnter
    \/ AExit
    \/ \E i \in Calls : AExitRaising(i)

Spec == Init /\ [][Next]_vars

(***************************************************************************)
(* Concurrent use: the caller issues calls on the same client without      *)
(* awaiting the ones in flight (asyncio.gather, several tasks).            *)
(***************************************************************************)
ConcOps == {"get_state", "set_power_on"}

ConcStatuses == {200, 500}

ConcHeaders == {<<ApplicationJson>>, <<<<"text/", "html">>>>}

ConcTexts == {"state_full"}

InFlight(c) == c.pc \notin {"idle", "done"}

ConcStart(i) ==
    /\ calls[i].pc = "idle"
    /\ \E op \in ConcOps : \E a \in ArgsOf(op) :
          calls' = [calls EXCEPT ![i] =
                       [Invoke(calls[i], op, a[1], a[2]) EXCEPT
                           !.among = \E j \in Calls \ {i} : InFlight(calls[j])]]
    /\ UNCHANGED <<client, session, closeInvocations, scope, last>>

ConcNext ==
    \/ \E i \in Calls : ConcStart(i)
    \/ \E i \in Calls : Connect(i)
    \/ \E i \in Calls : GetFails(i)
    \/ \E i \in Calls : Stall(i)
    \/ \E i \in Calls : Timeout(i)
    \/ \E i \in Calls : RespondsFrom(i, ConcStatuses, ConcHeaders)
    \/ \E i \in Calls : ReadTextFrom(i, ConcTexts)
    \/ \E i \in Calls : Sleep0(i)
    \/ \E i \in Calls : ReadJsonFrom(i, ConcTexts)
    \/ \E i \in Calls : ReadFails(i)

ConcSpec == Init /\ [][ConcNext]_vars

\* The event loop runs every coroutine that can go on, timers fire, and a
\* device that has not stalled answers.
Fairness ==
    \A i \in Calls :
        /\ WF_vars(Connect(i))
        /\ WF_vars(Timeout(i))
        /\ WF_vars(GetResponds(i))
        /\ WF_vars(ReadText(i))
        /\ WF_vars(Sleep0(i))
        /\ WF_vars(ReadJson(i))

FairSpec == Init /\ [][Next]_vars /\ Fairness

(***************************************************************************)
(*                              The claims                                 *)
(***************************************************************************)
SuppliedSession == session.id = "supplied"

OwnSession == session.id = "created"

IsConnectionError(o) ==
    o.kind = "raise" /\ IsInstance(o.exc, "StreamMagicConnectionError")

\* C1: a session the caller supplied is never closed by the client: it is
\* still open after any requests, close() calls and scope exits.
C1_SuppliedSessionNeverClosed == SuppliedSession => ~session.closed

\* C2: the close operation of a session the client created is performed
\* exactly once, however often close() has been invoked.
C2_OwnSessionClosedOnce ==
    (OwnSession /\ closeInvocations >= 1) => session.closeCalls = 1

\* C3: whenever the network call of _request raises an exception, of
\* whatever class, _request raises a ConnectionError kind, prints and
\* suppresses nothing, and goes on to neither content-type validation nor
\* JSON decoding.
C3_EveryFailureIsConnectionError ==
    \A i \in Calls :
        calls[i].tryExc # "" =>
            /\ calls[i].pc = "done"
            /\ IsConnectionError(calls[i].rq)
            /\ ~calls[i].printed
            /\ ~calls[i].readText
            /\ ~calls[i].readJson

\* C4: a call whose device stalls, in whatever phase (connecting, waiting
\* for status and headers, reading the body), eventually ends by raising a
\* ConnectionError kind.
C4_StallEndsInConnectionError ==
    \A i \in Calls :
        calls[i].stalled ~> (calls[i].pc = "done" /\ IsConnectionError(calls[i].rq))

\* C5: a request whose deadline expires raises a ConnectionError kind and
\* leaves client and session as they were (the session open and in place);
\* the request that follows is issued on that same session and, the session
\* being open, goes out to the device.
C5_TimeoutLeavesSessionReusable ==
    [][\A i \in Calls :
          /\ (~calls[i].expired /\ calls'[i].expired) =>
                /\ calls'[i].pc = "done"
                /\ IsConnectionError(calls'[i].rq)
                /\ session' = session
                /\ client' = client
          /\ (last.expired /\ calls[i].pc = "idle" /\ calls'[i].net > 0) =>
                /\ calls'[i].sess = session.id
                /\ ~session.closed => calls'[i].pc = "connect"]_vars

\* C5 witness: the request before timed out, and this one, on the same
\* open session, has returned a value.
C5_Witness ==
    /\ last.expired
    /\ last.exc = "StreamMagicConnectionError"
    /\ ~session.closed
    /\ \E i \in Calls :
          /\ calls[i].pc = "done"
          /\ calls[i].out.kind = "return"
          /\ calls[i].sess = session.id

IsSuccessStatus(status) == 200 <= status /\ status <= 299

C7_ContentTypeDecidesDecoding ==
    \A i \in Calls :
        IsSuccessStatus(calls[i].status) =>
            LET declared == HeadersGet(calls[i].hdr, <<>>)
                body == JsonLoads(calls[i].text)
            IN  IF Contains(declared, ApplicationJson)
                THEN /\ ~calls[i].readText
                     /\ calls[i].pc \in {"sleep", "json", "done"}
                     /\ (calls[i].readJson /\ body.ok) =>
                            /\ calls[i].pc = "done"
                            /\ calls[i].rq = Returns(body.tree)
                ELSE /\ ~calls[i].readJson
                     /\ calls[i].pc \in {"text", "done"}
                     /\ calls[i].readText =>
                            /\ calls[i].pc = "done"
                            /\ calls[i].rq.kind = "raise"
                            /\ calls[i].rq.exc = "StreamMagicError"
                            /\ calls[i].rq.ect = declared
                            /\ calls[i].rq.etext = calls[i].text

\* C7 witness: status 200 without a Content-Type header and with a body
\* that is JSON text has ended in the error carrying "" and that text.
C7_Witness ==
    \E i \in Calls :
        /\ calls[i].pc = "done"
        /\ calls[i].status = 200
        /\ calls[i].hdr = <<>>
        /\ calls[i].text = "state_full"
        /\ calls[i].rq.exc = "StreamMagicError"
        /\ calls[i].rq.etext = "state_full"

DigitValue(ch) ==
    CASE ch = "0" -> 0 [] ch = "1" -> 1 [] ch = "2" -> 2 [] ch = "3" -> 3
      [] ch = "4" -> 4 [] ch = "5" -> 5 [] ch = "6" -> 6 [] ch = "7" -> 7
      [] ch = "8" -> 8 [] ch = "9" -> 9 [] OTHER -> -1

RECURSIVE DecimalValue(_)
\* The number a sequence of decimal digits denotes; -1 if it denotes none.
DecimalValue(digits) ==
    IF digits = <<>> THEN -1
    ELSE IF DigitValue(digits[Len(digits)]) < 0 THEN -1
    ELSE IF Len(digits) = 1 THEN DigitValue(digits[1])
    ELSE LET front == DecimalValue(SubSeq(digits, 1, Len(digits) - 1))
         IN  IF front < 0 THEN -1 ELSE 10 * front + DigitValue(digits[Len(digits)])

\* C8: set_volume_percent(v) with v outside 0..100 raises the library's
\* error (StreamMagicError, the kind it has for bad input) with no request
\* issued; with v in 0..100 it issues exactly one request, to
\* /smoip/zone/state with query zone=ZONE1&volume_percent=v.
C8_VolumeBoundsBeforeRequest ==
    \A i \in Calls :
        calls[i].op = "set_volume_percent" =>
            IF calls[i].vol < 0 \/ calls[i].vol > 100
            THEN /\ calls[i].pc = "done"
                 /\ calls[i].out = Raises("StreamMagicError")
                 /\ calls[i].rq = NoOutcome
                 /\ calls[i].net = 0
                 /\ calls[i].sess = "none"
            ELSE /\ calls[i].net = 1
                 /\ calls[i].path = "/smoip/zone/state"
                 /\ Len(calls[i].query) >= 2
                 /\ Head(calls[i].query) = "zone=ZONE1&volume_percent="
                 /\ DecimalValue(Tail(calls[i].query)) = calls[i].vol

\* C8 witness: set_volume_percent(100) has gone through and returned.
C8_Witness ==
    \E i \in Calls :
        /\ calls[i].op = "set_volume_percent"
        /\ calls[i].vol = 100
        /\ calls[i].pc = "done"
        /\ calls[i].net = 1
        /\ calls[i].out = ReturnsNone

\* C9: failures of different classes (device unreachable, unexpected
\* response, bad input) raise kinds of which neither is caught by a handler
\* for the other; checked between a finished call and the call before it.
C9_FailureKindsDistinguishable ==
    \A i \in Calls :
        LET f == FailureOf(calls[i])
        IN  (calls[i].pc = "done"
                /\ f \in {"unreachable", "unexpected", "badinput"}
                /\ last.fail \in {"unreachable", "unexpected", "badinput"}
                /\ last.fail # f) =>
                /\ ~IsInstance(calls[i].out.exc, last.exc)
                /\ ~IsInstance(last.exc, calls[i].out.exc)

\* C10: the owns-flag is true exactly when no session was supplied.
C10_OwnsFlagIffNoSessionSupplied == client.close_session <=> ~SuppliedSession

\* C10 witness: a client given a session, after close() and a request.
C10_Witness ==
    /\ SuppliedSession
    /\ ~client.close_session
    /\ closeInvocations >= 1
    /\ \E i \in Calls : calls[i].pc = "done" /\ calls[i].net = 1

\* The outcome of _request that a finished call's own record determines:
\* its own failure or deadline, else its own response.
OwnOutcome(c) ==
    IF c.expired \/ c.tryExc \in NetFailures
    THEN RaisesFrom("StreamMagicConnectionError", c.tryExc)
    ELSE IF c.status >= 400
    THEN RaisesFrom("StreamMagicConnectionError", "ClientResponseError")
    ELSE IF c.readText
    THEN RaisesWith("StreamMagicError", HeadersGet(c.hdr, <<>>), c.text)
    ELSE IF c.readJson /\ JsonLoads(c.text).ok
    THEN Returns(JsonLoads(c.text).tree)
    ELSE c.rq

\* C11: with several calls in flight on one client, the step in which one
\* call fails or times out changes no other call and not the session, and
\* every call ends with the outcome its own response determines.
C11_FailureAbortsOnlyItsCall ==
    /\ [](\A i \in Calls : calls[i].pc = "done" => calls[i].rq = OwnOutcome(calls[i]))
    /\ [][\A i \in Calls :
             (calls[i].pc # "done" /\ calls'[i].pc = "done"
                 /\ calls'[i].rq.kind = "raise") =>
                 /\ \A j \in Calls \ {i} : calls'[j] = calls[j]
                 /\ session' = session
                 /\ client' = client]_vars

\* C11 witness: one call has timed out, and a call invoked while another
\* was in flight has returned the state its response carried.
C11_Witness ==
    \E i \in Calls : \E j \in Calls \ {i} :
        /\ calls[i].pc = "done"
        /\ calls[i].expired
        /\ IsConnectionError(calls[i].rq)
        /\ calls[j].among
        /\ calls[j].pc = "done"
        /\ calls[j].out.kind = "return"

\* C12: when an `async with` scope of the client has been left, normally
\* or by an exception raised by a call in its body, close() has run and a
\* session the client created is closed; the exception is not suppressed.
C12_ScopeExitReleasesSession ==
    /\ [](scope \in {"exited", "raised"} =>
            /\ closeInvocations >= 1
            /\ OwnSession => (session.closed /\ session.closings = 1))
    /\ [][(scope = "entered" /\ scope' # "entered") =>
             /\ closeInvocations' = closeInvocations + 1
             /\ OwnSession => session'.closed
             /\ (\E i \in Calls : /\ calls[i].pc = "done"
                                  /\ calls[i].out.kind = "raise"
                                  /\ calls'[i].pc = "idle") => scope' = "raised"]_vars

\* C12 witness: a ConnectionError has left the scope of a client that
\* created its session, and the session is closed.
C12_Witness ==
    /\ scope = "raised"
    /\ OwnSession
    /\ session.closed
    /\ last.exc = "StreamMagicConnectionError"

RECURSIVE Joined(_)
\* The string a sequence of pieces spells.
Joined(pieces) == IF pieces = <<>> THEN "" ELSE Head(pieces) \o Joined(Tail(pieces))

\* The rows of the endpoint table: method, path, query.
EndpointTable ==
    {<<"get_info", "/smoip/system/info", "">>,
     <<"get_sources", "/smoip/system/sources", "">>,
     <<"get_state", "/smoip/zone/state", "zone=ZONE1">>,
     <<"set_power_on", "/smoip/zone/state", "zone=ZONE1&power=true">>,
     <<"set_power_off", "/smoip/zone/state", "zone=ZONE1&power=false">>,
     <<"set_volume_step_up", "/smoip/zone/state", "zone=ZONE1&volume_step_change=1">>,
     <<"set_volume_step_down", "/smoip/zone/state", "zone=ZONE1&volume_step_change=-1">>,
     <<"set_volume_mute_on", "/smoip/zone/state", "zone=ZONE1&mute=true">>,
     <<"set_volume_mute_off", "/smoip/zone/state", "zone=ZONE1&mute=false">>,
     <<"set_source", "/smoip/zone/state", "zone=ZONE1&source=">>}

\* C13: each endpoint method issues exactly one _request call, with the
\* path and query of its row of the endpoint table (set_source with the
\* source's id appended); a set_* method whose request returns, returns
\* nothing.
C13_EndpointTable ==
    \A i \in Calls : \A row \in EndpointTable :
        calls[i].op = row[1] =>
            /\ calls[i].net = 1
            /\ calls[i].path = row[2]
            /\ Joined(calls[i].query) = row[3] \o calls[i].src
            /\ (calls[i].pc = "done" /\ calls[i].rq.kind = "return"
                   /\ row[1] \notin {"get_info", "get_sources", "get_state"}) =>
                   calls[i].out = ReturnsNone

\* C13 witness: set_source of the source IR has returned nothing.
C13_Witness ==
    /\ last.fail = "none"
    /\ \E i \in Calls :
          /\ calls[i].op = "set_source"
          /\ calls[i].src = "IR"
          /\ Joined(calls[i].query) = "zone=ZONE1&source=IR"
          /\ calls[i].pc = "done"
          /\ calls[i].out = ReturnsNone

(***************************************************************************)
(* Decoding                                                                *)
(***************************************************************************)
Getters == {"get_info", "get_sources", "get_state"}

\* A get_* call whose _request returned a decoded JSON tree.
Decoding(c) == c.pc = "done" /\ c.op \in Getters /\ c.rq.kind = "return"

\* obj carries every field of the model with a value of the field's type.
WellFormed(model, obj) == \A f \in model : FieldValid(f, obj)

Positions(arr) == {l.p[1] : l \in arr}

\* The tree is what the endpoint of op answers when all is in order.
WellFormedFor(op, tree) ==
    /\ HasKey(tree, "data")
    /\ CASE op = "get_info" -> WellFormed(InfoModel, GetItem(tree, "data"))
         [] op = "get_state" -> WellFormed(StateModel, GetItem(tree, "data"))
         [] OTHER ->
              /\ HasKey(GetItem(tree, "data"), "sources")
              /\ LET arr == GetItem(GetItem(tree, "data"), "sources")
                 IN  \A k \in Positions(arr) : WellFormed(SourceModel, GetItem(arr, k))

\* C14: a get_* call whose decoded tree lacks the data key (or
\* data.sources), a required field, or holds a value of the wrong primitive
\* type, raises ValidationError and nothing else, and returns no record.
C14_MalformedTreeIsValidationError ==
    \A i \in Calls :
        (Decoding(calls[i]) /\ ~WellFormedFor(calls[i].op, calls[i].rq.val)) =>
            /\ calls[i].out.kind = "raise"
            /\ calls[i].out.exc = "ValidationError"

\* The value a leaf holds, whatever its place in the tree.
ValueOf(l) == [t |-> l.t, s |-> l.s, n |-> l.n, b |-> l.b]

\* The record rec has exactly the fields of the model, each holding the
\* wire value found at the field's alias in obj.
RecordEquals(model, rec, obj) ==
    /\ {l.p : l \in rec} = {<<f.name>> : f \in model}
    /\ \A f \in model :
          {ValueOf(l) : l \in {m \in rec : m.p = <<f.name>>}}
              = {ValueOf(l) : l \in {m \in obj : m.p = <<f.alias>>}}

\* C15: for a well-formed response the record returned holds, field by
\* field, the wire value at the field's alias (api_version that of "api"),
\* and get_sources returns one Source per element of data.sources, the
\* k-th made from the k-th element.
C15_DecodedRecordEqualsWire ==
    \A i \in Calls :
        (Decoding(calls[i]) /\ WellFormedFor(calls[i].op, calls[i].rq.val)) =>
            /\ calls[i].out.kind = "return"
            /\ LET data == GetItem(calls[i].rq.val, "data")
                   rec == calls[i].out.val
               IN  CASE calls[i].op = "get_info" -> RecordEquals(InfoModel, rec, data)
                     [] calls[i].op = "get_state" -> RecordEquals(StateModel, rec, data)
                     [] OTHER ->
                          LET arr == GetItem(data, "sources")
                          IN  /\ Positions(rec) = Positions(arr)
                              /\ \A k \in Positions(arr) :
                                    RecordEquals(SourceModel, GetItem(rec, k),
                                                 GetItem(arr, k))

\* get_sources has returned the two sources of the response in wire order.
C15_Witness ==
    \E i \in Calls :
        /\ Decoding(calls[i])
        /\ calls[i].op = "get_sources"
        /\ WellFormedFor("get_sources", calls[i].rq.val)
        /\ calls[i].out.kind = "return"
        /\ StrLeaf(<<"0", "id">>, "USB_AUDIO") \in calls[i].out.val
        /\ StrLeaf(<<"1", "id">>, "IR") \in calls[i].out.val
        /\ IntLeaf(<<"1", "preferred_order">>, 1) \in calls[i].out.val

\* The state object carries every field of State except volume_db.
OnlyVolumeDbAbsent(obj) ==
    /\ ~HasKey(obj, "volume_db")
    /\ \A f \in StateModel : f.name # "volume_db" => FieldValid(f, obj)

\* C16: get_state returns a State record when the response carries every
\* state field except volume_db.
C16_StateWithoutVolumeDbDecodes ==
    \A i \in Calls :
        ( /\ Decoding(calls[i])
          /\ calls[i].op = "get_state"
          /\ HasKey(calls[i].rq.val, "data")
          /\ OnlyVolumeDbAbsent(GetItem(calls[i].rq.val, "data")) ) =>
            calls[i].out.kind = "return"

(***************************************************************************)
(* The request itself                                                      *)
(***************************************************************************)
\* _request has been entered by the call.
Requested(c) == c.pc # "idle" /\ c.path # ""

\* C17: a request is issued on the session the client holds, which is the
\* session it was constructed with, and no step of a request, returning or
\* raising, changes the client's host, timeout, session or owns-flag, or
\* puts another session in its place.
C17_RequestLeavesClientUnchanged ==
    /\ [](\A i \in Calls :
            Requested(calls[i]) =>
                /\ calls[i].sess = client.session
                /\ calls[i].sess = session.id)
    /\ [][(\E i \in Calls : calls'[i] # calls[i]) =>
              /\ client' = client
              /\ session'.id = session.id]_vars

\* A request has returned a value on the session of the client after an
\* earlier request raised.
C17_Witness ==
    /\ last.fail = "unreachable"
    /\ \E i \in Calls :
          /\ Requested(calls[i])
          /\ calls[i].pc = "done"
          /\ calls[i].rq.kind = "return"
          /\ calls[i].sess = client.session
          /\ client.request_timeout = RequestTimeout

\* C18: an invocation of _request issues one HTTP request and no more,
\* whatever becomes of it, so never more than MaxAttempts; a request that
\* fails or times out ends the invocation in StreamMagicConnectionError
\* with that one request issued.
C18_OneRequestPerInvocation ==
    \A i \in Calls :
        /\ calls[i].net <= 1
        /\ calls[i].net <= MaxAttempts
        /\ Requested(calls[i]) => calls[i].net = 1
        /\ (calls[i].expired \/ calls[i].tryExc \in NetFailures \cup {"ClientResponseError"}) =>
              /\ calls[i].pc = "done"
              /\ calls[i].net = 1
              /\ IsConnectionError(calls[i].rq)

\* A request failed to connect and the invocation ended in
\* StreamMagicConnectionError after that one request.
C18_Witness ==
    \E i \in Calls :
        /\ calls[i].pc = "done"
        /\ calls[i].tryExc = "ClientConnectorError"
        /\ calls[i].net = 1
        /\ IsConnectionError(calls[i].rq)

\* C19: the HTTP request of _request carries the verb given in its method
\* argument, GET when none is given.
C19_VerbIsMethodArgument ==
    \A i \in Calls : Requested(calls[i]) => calls[i].verb = calls[i].method

====
